---- MODULE Spec2Model ----
(***************************************************************************)
(* snake3d-rs: a snake crawling over the six faces of a cube.              *)
(*                                                                         *)
(*   - the cube topology resolver, GameState::calculate_next_position      *)
(*     (src/src/game.rs), and the renderer's embedding of a cell into 3D,  *)
(*     GameRenderer::pos_to_vec3 (src/src/renderer.rs);                    *)
(*   - the game state machine, GameState::new / spawn_food / update        *)
(*     (src/src/game.rs);                                                  *)
(*   - the driver loop of src/src/lib.rs: direction input from keys,       *)
(*     on-screen buttons and swipes, the R key, and the tick;              *)
(*   - the leaderboard service of src/server/src/main.rs.                  *)
(*                                                                         *)
(* The specifications share the variables:                                 *)
(*   ResolverSpec  draws (grid_size, position, direction) from bounded     *)
(*                 sets and applies the resolver, feeding results back;    *)
(*   Spec          the game as the driver loop runs it, the tick falling   *)
(*                 in any frame;                                           *)
(*   CoreSpec      GameState under any caller of its public interface;     *)
(*   PacingSpec    the driver loop with its frame times and accumulator;   *)
(*   IntervalSpec  draws a score and applies the move interval formula;    *)
(*   ServerSpec    the leaderboard service (src/server/src/main.rs) under  *)
(*                 concurrent POST /api/scores requests;                   *)
(*   ReadSpec      draws a stored list and applies GET /api/scores.        *)
(***************************************************************************)
EXTENDS Integers, Sequences, FiniteSets, TLC

VARIABLES
    game,    \* lib.rs `game`: the GameState value owned by the render loop
    event,   \* lib.rs 215 `event`: what update() returned in this frame;
             \* "NoCall" outside the scope of that binding
    pc,      \* where the render loop is: "idle" = handling input, before
             \* the tick; "dispatch" = update() has returned, lib.rs 216;
             \* "spawn_food" = inside the recursion of spawn_food that
             \* never finds a free cell
    probe,   \* ResolverSpec: the resolver call under examination
    pacing,  \* lib.rs 39 `time_since_last_move` and the frame's local
             \* `move_interval`, in milliseconds; IntervalSpec: the score
             \* under examination
    server   \* server/src/main.rs: the leaderboard service: AppState.scores
             \* and its mutex, the contents of the scores file and of its
             \* last successful write, the request handlers in flight and
             \* the last response to a read

vars == <<game, event, pc, probe, pacing, server>>

----------------------------------------------------------------------------
(* Bounds of the model *)

\* ResolverSpec examines every grid_size in 1..MaxGrid
MaxGrid == 4

\* Spec plays on boards of these grid sizes (lib.rs 33 fixes grid_size = 10;
\* game.rs takes any grid_size)
GridSizes == {1, 2}

\* On boards larger than the 6-cell one, Spec stops exploring growth beyond
\* a snake of MaxLen segments; the 6-cell board is explored in full
MaxLen == 4

\* PacingSpec plays on the 6-cell board and draws the elapsed time of a
\* frame, in milliseconds, from FrameTimes
PacingGridSizes == {1}

FrameTimes == {50, 100}

\* IntervalSpec examines every score in 0..MaxScore
MaxScore == 60

\* ServerSpec: the worker threads that run request handlers side by side,
\* the number of POST requests it accepts, and the scores they carry
Handlers == {"worker1", "worker2"}

MaxPosts == 3

ScoreValues == {1, 2}

\* ReadSpec examines every stored list of up to MaxStored entries
MaxStored == 11

----------------------------------------------------------------------------
(* Data model: game.rs Face, Direction, Position *)

Faces == {"Front", "Back", "Left", "Right", "Top", "Bottom"}

Directions == {"Up", "Down", "Left", "Right"}

Pos(face, u, v) == [face |-> face, u |-> u, v |-> v]

\* the cells of a cube with grid_size n: u, v in [0, n)
Cells(n) == [face : Faces, u : 0..(n - 1), v : 0..(n - 1)]

InRange(n, pos) == pos.u >= 0 /\ pos.u < n /\ pos.v >= 0 /\ pos.v < n

\* lib.rs guards: the direction an input must not be the opposite of
reverse(dir) ==
    CASE dir = "Up" -> "Down"
      [] dir = "Down" -> "Up"
      [] dir = "Left" -> "Right"
      [] dir = "Right" -> "Left"

----------------------------------------------------------------------------
(* The cube topology resolver: GameState::calculate_next_position *)

Res(face, u, v, dir) == [pos |-> Pos(face, u, v), dir |-> dir]

step_mut_up(pos, dir) ==
    CASE dir = "Up" -> [u |-> pos.u, v |-> pos.v - 1]
      [] dir = "Down" -> [u |-> pos.u, v |-> pos.v - 1]
      [] dir = "Left" -> [u |-> pos.u - 1, v |-> pos.v]
      [] dir = "Right" -> [u |-> pos.u + 1, v |-> pos.v]

\* game.rs 193-198: move one cell in dir
step(pos, dir) ==
    CASE dir = "Up" -> [u |-> pos.u, v |-> pos.v + 1]
      [] dir = "Down" -> [u |-> pos.u, v |-> pos.v - 1]
      [] dir = "Left" -> [u |-> pos.u - 1, v |-> pos.v]
      [] dir = "Right" -> [u |-> pos.u + 1, v |-> pos.v]

\* game.rs 201: the stepped coordinates left the face
out_of_bounds(n, u, v) == u < 0 \/ u >= n \/ v < 0 \/ v >= n

front_mut_right(n, dir, u, v) ==
    CASE dir = "Up" -> Res("Top", u, 0, dir)
      [] dir = "Down" -> Res("Bottom", u, n - 1, dir)
      [] dir = "Left" -> Res("Left", n - 1, v, dir)
      [] dir = "Right" -> Res("Right", 0, n - 1 - v, dir)

\* game.rs 205-208; (u, v) are the stepped coordinates
front_transitions(n, dir, u, v) ==
    CASE dir = "Up" -> Res("Top", u, 0, dir)
      [] dir = "Down" -> Res("Bottom", u, n - 1, dir)
      [] dir = "Left" -> Res("Left", n - 1, v, dir)
      [] dir = "Right" -> Res("Right", 0, v, dir)

back_mut_up(n, dir, u, v) ==
    CASE dir = "Up" -> Res("Top", n - 1 - u, n, "Down")
      [] dir = "Down" -> Res("Bottom", n - 1 - u, 0, "Up")
      [] dir = "Left" -> Res("Right", n - 1, v, dir)
      [] dir = "Right" -> Res("Left", 0, v, dir)

\* game.rs 211, 437, 444, 445
back_transitions(n, dir, u, v) ==
    CASE dir = "Up" -> Res("Top", n - 1 - u, n - 1, "Down")
      [] dir = "Down" -> Res("Bottom", n - 1 - u, 0, "Up")
      [] dir = "Left" -> Res("Right", n - 1, v, dir)
      [] dir = "Right" -> Res("Left", 0, v, dir)

top_mut_up(n, dir, u, v) ==
    CASE dir = "Right" -> Res("Right", v, n - 1, "Down")
      [] dir = "Left" -> Res("Left", n - 1 - v, n - 1, "Down")
      [] dir = "Up" -> Res("Back", u, n - 1, "Down")
      [] dir = "Down" -> Res("Front", u, n - 1, dir)

top_mut_right(n, dir, u, v) ==
    CASE dir = "Right" -> Res("Right", v, n - 1, "Right")
      [] dir = "Left" -> Res("Left", n - 1 - v, n - 1, "Down")
      [] dir = "Up" -> Res("Back", n - 1 - u, n - 1, "Down")
      [] dir = "Down" -> Res("Front", u, n - 1, dir)

\* game.rs 269, 270, 272, 335
top_transitions(n, dir, u, v) ==
    CASE dir = "Right" -> Res("Right", v, n - 1, "Down")
      [] dir = "Left" -> Res("Left", n - 1 - v, n - 1, "Down")
      [] dir = "Up" -> Res("Back", n - 1 - u, n - 1, "Down")
      [] dir = "Down" -> Res("Front", u, n - 1, dir)

\* game.rs 338, 339, 351, 375
bottom_transitions(n, dir, u, v) ==
    CASE dir = "Up" -> Res("Front", u, 0, dir)
      [] dir = "Down" -> Res("Back", n - 1 - u, 0, "Up")
      [] dir = "Left" -> Res("Left", v, 0, "Up")
      [] dir = "Right" -> Res("Right", n - 1 - v, 0, "Up")

\* game.rs 385, 386, 404, 406
right_transitions(n, dir, u, v) ==
    CASE dir = "Left" -> Res("Front", n - 1, v, dir)
      [] dir = "Right" -> Res("Back", 0, v, dir)
      [] dir = "Up" -> Res("Top", n - 1, u, "Left")
      [] dir = "Down" -> Res("Bottom", n - 1, n - 1 - u, "Left")

\* game.rs 416, 417, 418, 427
left_transitions(n, dir, u, v) ==
    CASE dir = "Right" -> Res("Front", 0, v, dir)
      [] dir = "Left" -> Res("Back", n - 1, v, dir)
      [] dir = "Up" -> Res("Top", 0, n - 1 - u, "Right")
      [] dir = "Down" -> Res("Bottom", 0, u, "Right")

\* game.rs 203-448: the match on (face, dir)
transition(n, face, dir, u, v) ==
    CASE face = "Front" -> front_transitions(n, dir, u, v)
      [] face = "Back" -> back_transitions(n, dir, u, v)
      [] face = "Top" -> top_transitions(n, dir, u, v)
      [] face = "Bottom" -> bottom_transitions(n, dir, u, v)
      [] face = "Right" -> right_transitions(n, dir, u, v)
      [] face = "Left" -> left_transitions(n, dir, u, v)

\* game.rs 186-452
calculate_next_position(n, pos, dir) ==
    LET s == step(pos, dir)
    IN  IF out_of_bounds(n, s.u, s.v)
        THEN transition(n, pos.face, dir, s.u, s.v)
        ELSE Res(pos.face, s.u, s.v, dir)

----------------------------------------------------------------------------
(* The renderer's embedding of a cell into 3D: GameRenderer::pos_to_vec3.   *)
(* The source works in floats on a cube of side 2 with                      *)
(* cell_size = 2 / grid_size; every coordinate here is the source's value   *)
(* times grid_size, which is an integer: u_local * n = 2u + 1 - n and the   *)
(* surface (offset 0) is at n.                                              *)

\* renderer.rs 413-414
local_coord(n, c) == 2 * c + 1 - n

pos_to_vec3_mut_back(n, pos) ==
    LET u_local == local_coord(n, pos.u)
        v_local == local_coord(n, pos.v)
        surface == n
    IN  CASE pos.face = "Front" -> <<u_local, v_local, surface>>
          [] pos.face = "Back" -> <<u_local, v_local, -surface>>
          [] pos.face = "Right" -> <<surface, v_local, -u_local>>
          [] pos.face = "Left" -> <<-surface, v_local, u_local>>
          [] pos.face = "Top" -> <<u_local, surface, -v_local>>
          [] pos.face = "Bottom" -> <<u_local, -surface, v_local>>

\* renderer.rs 419-426
pos_to_vec3(n, pos) ==
    LET u_local == local_coord(n, pos.u)
        v_local == local_coord(n, pos.v)
        surface == n
    IN  CASE pos.face = "Front" -> <<u_local, v_local, surface>>
          [] pos.face = "Back" -> <<-u_local, v_local, -surface>>
          [] pos.face = "Right" -> <<surface, v_local, -u_local>>
          [] pos.face = "Left" -> <<-surface, v_local, u_local>>
          [] pos.face = "Top" -> <<u_local, surface, -v_local>>
          [] pos.face = "Bottom" -> <<u_local, -surface, v_local>>

----------------------------------------------------------------------------
(* The game state machine: game.rs Snake, GameState *)

Contains(body, pos) == \E i \in 1..Len(body) : body[i] = pos

\* VecDeque::back
Back(body) == body[Len(body)]

\* VecDeque::pop_back
PopBack(body) == SubSeq(body, 1, Len(body) - 1)

\* game.rs 40-50
Snake_new(start_pos, start_dir) ==
    [body |-> <<start_pos>>, direction |-> start_dir, next_direction |-> start_dir]

\* game.rs 52-54
head(snake) == Head(snake.body)

Samples_mut_inclusive(n) == [face : Faces, u : 0..n, v : 0..n]

\* game.rs 110-126: every (face, u, v) the three random bytes can map to
Samples(n) == Cells(n)

spawn_food_mut_any(g) ==
    { [g EXCEPT !.food = new_pos,
                !.is_prize = ((g.food_eaten_count + 1) % 5 = 0)] :
        new_pos \in Samples(g.config.grid_size) }

\* game.rs 103-136: the states spawn_food can return in. A sample on the
\* snake recurses, so the call returns with the first sample that is not on
\* the snake; when every cell is on the snake no sample ends the recursion
\* and the set is empty.
spawn_food(g) ==
    { [g EXCEPT !.food = new_pos,
                !.is_prize = ((g.food_eaten_count + 1) % 5 = 0)] :
        new_pos \in { p \in Samples(g.config.grid_size) :
                        ~Contains(g.snake.body, p) } }

GameState_new_mut_origin(grid_size) ==
    LET start_pos == Pos("Front", 0, 0)
    IN  spawn_food([snake |-> Snake_new(start_pos, "Up"),
                    food |-> start_pos,
                    is_prize |-> FALSE,
                    score |-> 0,
                    high_score |-> 0,
                    food_eaten_count |-> 0,
                    game_over |-> FALSE,
                    config |-> [grid_size |-> grid_size]])

\* game.rs 77-101
GameState_new(grid_size) ==
    LET start_pos == Pos("Front", grid_size \div 2, grid_size \div 2)
    IN  spawn_food([snake |-> Snake_new(start_pos, "Up"),
                    food |-> start_pos,
                    is_prize |-> FALSE,
                    score |-> 0,
                    high_score |-> 0,
                    food_eaten_count |-> 0,
                    game_over |-> FALSE,
                    config |-> [grid_size |-> grid_size]])

\* the result of one update() call: the state it leaves, the event it
\* returns, and whether it returns at all
Outcome(g, ev, returned) == [game |-> g, event |-> ev, returned |-> returned]

candidate_mut_from_back(g) ==
    calculate_next_position(g.config.grid_size, Back(g.snake.body),
                            g.snake.next_direction)

candidate_mut_stale_direction(g) ==
    calculate_next_position(g.config.grid_size, head(g.snake),
                            g.snake.direction)

\* game.rs 143-145: commit the buffered direction and resolve the step
candidate(g) ==
    calculate_next_position(g.config.grid_size, head(g.snake),
                            g.snake.next_direction)

\* game.rs 152
growing(g) == candidate(g).pos = g.food

collides_mut_no_tail(g) == Contains(g.snake.body, candidate(g).pos)

\* game.rs 154-162: the candidate is on the body and is not the vacating tail
collides(g) ==
    /\ Contains(g.snake.body, candidate(g).pos)
    /\ ~(~growing(g) /\ candidate(g).pos = Back(g.snake.body))

eat_mut_no_score(g) ==
    LET ev == IF g.is_prize THEN "EatPrize" ELSE "Eat"
        g1 == [g EXCEPT !.food_eaten_count = @ + 1]
    IN  IF spawn_food(g1) = {}
        THEN {Outcome(g1, ev, FALSE)}
        ELSE {Outcome(s, ev, TRUE) : s \in spawn_food(g1)}

eat_mut_no_count(g) ==
    LET score == g.score + (IF g.is_prize THEN 5 ELSE 1)
        ev == IF g.is_prize THEN "EatPrize" ELSE "Eat"
        g1 == [g EXCEPT !.score = score,
                        !.high_score = IF score > @ THEN score ELSE @]
    IN  IF spawn_food(g1) = {}
        THEN {Outcome(g1, ev, FALSE)}
        ELSE {Outcome(s, ev, TRUE) : s \in spawn_food(g1)}

eat_mut_no_high_score(g) ==
    LET score == g.score + (IF g.is_prize THEN 5 ELSE 1)
        ev == IF g.is_prize THEN "EatPrize" ELSE "Eat"
        g1 == [g EXCEPT !.score = score,
                        !.food_eaten_count = @ + 1]
    IN  IF spawn_food(g1) = {}
        THEN {Outcome(g1, ev, FALSE)}
        ELSE {Outcome(s, ev, TRUE) : s \in spawn_food(g1)}

\* game.rs 171-179: the growing branch, after the push
eat(g) ==
    LET score == g.score + (IF g.is_prize THEN 5 ELSE 1)
        ev == IF g.is_prize THEN "EatPrize" ELSE "Eat"
        g1 == [g EXCEPT !.score = score,
                        !.high_score = IF score > @ THEN score ELSE @,
                        !.food_eaten_count = @ + 1]
    IN  IF spawn_food(g1) = {}
        THEN {Outcome(g1, ev, FALSE)}
        ELSE {Outcome(s, ev, TRUE) : s \in spawn_food(g1)}

advance_mut_no_pop(g) == {Outcome(g, "None", TRUE)}

\* game.rs 180-183: the non-growing branch, after the push
advance(g) ==
    {Outcome([g EXCEPT !.snake.body = PopBack(@)], "None", TRUE)}

update_running_mut_push_on_collision(g) ==
    LET c == candidate(g)
        g1 == [g EXCEPT !.snake.direction = g.snake.next_direction]
        g2 == [g1 EXCEPT !.snake.body = <<c.pos>> \o @,
                         !.snake.direction = c.dir,
                         !.snake.next_direction = c.dir]
    IN  IF collides(g)
        THEN {Outcome([g2 EXCEPT !.game_over = TRUE], "GameOver", TRUE)}
        ELSE IF growing(g) THEN eat(g2) ELSE advance(g2)

update_running_mut_keep_buffer(g) ==
    LET c == candidate(g)
        g1 == [g EXCEPT !.snake.direction = g.snake.next_direction]
    IN  IF collides(g)
        THEN {Outcome([g1 EXCEPT !.game_over = TRUE], "GameOver", TRUE)}
        ELSE LET g2 == [g1 EXCEPT !.snake.body = <<c.pos>> \o @,
                                  !.snake.direction = c.dir]
             IN  IF growing(g) THEN eat(g2) ELSE advance(g2)

\* game.rs 143-184: update() on a running game
update_running(g) ==
    LET c == candidate(g)
        g1 == [g EXCEPT !.snake.direction = g.snake.next_direction]
    IN  IF collides(g)
        THEN {Outcome([g1 EXCEPT !.game_over = TRUE], "GameOver", TRUE)}
        ELSE LET g2 == [g1 EXCEPT !.snake.body = <<c.pos>> \o @,
                                  !.snake.direction = c.dir,
                                  !.snake.next_direction = c.dir]
             IN  IF growing(g) THEN eat(g2) ELSE advance(g2)

update_mut_not_sticky(g) == update_running(g)

update_mut_game_over_again(g) ==
    IF g.game_over
    THEN {Outcome(g, "GameOver", TRUE)}
    ELSE update_running(g)

\* game.rs 138-184
update(g) ==
    IF g.game_over
    THEN {Outcome(g, "None", TRUE)}
    ELSE update_running(g)

----------------------------------------------------------------------------
(* The driver: the render_loop closure of lib.rs. One frame handles the     *)
(* pending button/swipe direction, then each key press in order, then calls *)
(* update() when the accumulated time has reached the move interval and     *)
(* dispatches the event it returned. The game state sees a frame as that    *)
(* sequence of steps, so each step is an action; the frame time is an input *)
(* and the tick may fall in any frame.                                      *)

\* the arms of the match at lib.rs 166-195; W, S, A, D share the arms of
\* the arrow keys
Keys == {"ArrowUp", "ArrowDown", "ArrowLeft", "ArrowRight", "R", "Other"}

\* lib.rs 167, 172, 177, 182
key_dir(kind) ==
    CASE kind = "ArrowUp" -> "Up"
      [] kind = "ArrowDown" -> "Down"
      [] kind = "ArrowLeft" -> "Left"
      [] kind = "ArrowRight" -> "Right"

turn_mut_unguarded(g, dir) == [g EXCEPT !.snake.next_direction = dir]

\* lib.rs 153-158 and 167-186: a direction input is buffered unless it is
\* the opposite of the snake's current direction
turn(g, dir) ==
    IF g.snake.direction # reverse(dir)
    THEN [g EXCEPT !.snake.next_direction = dir]
    ELSE g

restart_mut_no_carry(g) ==
    IF g.game_over
    THEN GameState_new(g.config.grid_size)
    ELSE {g}

restart_mut_unguarded(g) ==
    { [s EXCEPT !.high_score = g.high_score] :
        s \in GameState_new(g.config.grid_size) }

\* lib.rs 187-193: the R key
restart(g) ==
    IF g.game_over
    THEN { [s EXCEPT !.high_score = g.high_score] :
             s \in GameState_new(g.config.grid_size) }
    ELSE {g}

\* lib.rs 161-197: one key press
key_press(g, kind) ==
    CASE kind = "R" -> restart(g)
      [] kind = "Other" -> {g}
      [] OTHER -> {turn(g, key_dir(kind))}

\* ResolverSpec leaves the game alone, Spec leaves the probe alone
IdleProbe ==
    LET c == [pos |-> Pos("Front", 0, 0), dir |-> "Up"]
    IN  [n |-> 1, start |-> c, from |-> c, to |-> c, orig |-> c,
         steps |-> 0, undone |-> FALSE]

\* lib.rs 39: no time accumulated; outside a ticking frame no move interval
\* is in scope
IdlePacing == [time_since_last_move |-> 0, move_interval |-> 0, score |-> 0]

\* main.rs 15-18, 21-31: the service before any request, started without a
\* scores file: no scores, the mutex free, no handler running
IdleServer ==
    [scores |-> <<>>,
     lock |-> "free",
     file |-> <<>>,
     written |-> <<>>,
     handlers |-> [h \in Handlers |-> [pc |-> "idle", score |-> <<>>]],
     posted |-> 0,
     read |-> FALSE,
     response |-> <<>>]

\* lib.rs 33-34, 39
Init ==
    /\ game \in UNION {GameState_new(n) : n \in GridSizes}
    /\ event = "NoCall"
    /\ pc = "idle"
    /\ probe = IdleProbe
    /\ pacing = IdlePacing
    /\ server = IdleServer

\* lib.rs 143-159: a button or swipe direction found in mobile_input
MobileInput ==
    /\ pc = "idle"
    /\ \E dir \in Directions : game' = turn(game, dir)
    /\ UNCHANGED <<event, pc, probe, pacing, server>>

\* lib.rs 161-197
KeyPress ==
    /\ pc = "idle"
    /\ \E kind \in Keys : game' \in key_press(game, kind)
    /\ UNCHANGED <<event, pc, probe, pacing, server>>

\* lib.rs 213-215: the move interval has elapsed, update() is called. When
\* spawn_food finds no free cell the call does not return and the loop
\* never runs again.
Tick ==
    /\ pc = "idle"
    /\ \/ game.game_over
       \/ ~growing(game)
       \/ Len(game.snake.body) < MaxLen
       \/ game.config.grid_size = 1
    /\ \E o \in update(game) :
         /\ game' = o.game
         /\ event' = IF o.returned THEN o.event ELSE event
         /\ pc' = IF o.returned THEN "dispatch" ELSE "spawn_food"
    /\ UNCHANGED <<probe, pacing, server>>

\* lib.rs 216-229: the event is matched for its sound and particles and
\* goes out of scope, the accumulated time is set to zero; the frame ends
Dispatch ==
    /\ pc = "dispatch"
    /\ pc' = "idle"
    /\ event' = "NoCall"
    /\ pacing' = [pacing EXCEPT !.time_since_last_move = 0,
                                !.move_interval = 0]
    /\ UNCHANGED <<game, probe, server>>

Next == MobileInput \/ KeyPress \/ Tick \/ Dispatch

Spec == Init /\ [][Next]_vars

----------------------------------------------------------------------------
(* CoreSpec: GameState under any caller. snake.next_direction is a public   *)
(* field (game.rs 34-38) and update() a public method: a caller other than  *)
(* the driver loop may buffer any direction before a tick, the opposite of  *)
(* the direction of travel included.                                        *)

\* game.rs 37: a caller writes the public field snake.next_direction
SetNextDirection ==
    /\ pc = "idle"
    /\ \E dir \in Directions :
         game' = [game EXCEPT !.snake.next_direction = dir]
    /\ UNCHANGED <<event, pc, probe, pacing, server>>

CoreNext == SetNextDirection \/ Tick \/ Dispatch

CoreSpec == Init /\ [][CoreNext]_vars

----------------------------------------------------------------------------
(* PacingSpec: the driver loop with its clock. Times are in integer         *)
(* milliseconds: frame_input.elapsed_time is in milliseconds, and lib.rs    *)
(* keeps seconds as f64 (elapsed_time / 1000.0, 0.15, 0.05, score * 0.002). *)

\* lib.rs 207: 0.15 s
base_speed == 150

\* lib.rs 208: 0.05 s
min_speed == 50

\* f64::min
Min(a, b) == IF a <= b THEN a ELSE b

\* lib.rs 209: (score * 0.002).min(base_speed - min_speed)
speed_reduction(score) == Min(2 * score, base_speed - min_speed)

move_interval_mut_no_floor(score) == base_speed - 2 * score

\* lib.rs 210
move_interval(score) == base_speed - speed_reduction(score)

PacingInit ==
    /\ game \in UNION {GameState_new(n) : n \in PacingGridSizes}
    /\ event = "NoCall"
    /\ pc = "idle"
    /\ probe = IdleProbe
    /\ pacing = IdlePacing
    /\ server = IdleServer

\* lib.rs 203-215: the frame adds its elapsed time to the accumulator and
\* calls update() when the accumulator has reached the move interval of the
\* current score. When update() returns, Dispatch ends the frame; in a
\* frame without a tick the accumulator is all that changes.
Frame ==
    /\ pc = "idle"
    /\ \E elapsed_time \in FrameTimes :
         LET t == pacing.time_since_last_move + elapsed_time
             interval == move_interval(game.score)
         IN  IF t >= interval
             THEN /\ pacing' = [pacing EXCEPT !.time_since_last_move = t,
                                              !.move_interval = interval]
                  /\ \E o \in update(game) :
                       /\ game' = o.game
                       /\ event' = IF o.returned THEN o.event ELSE event
                       /\ pc' = IF o.returned THEN "dispatch" ELSE "spawn_food"
             ELSE /\ pacing' = [pacing EXCEPT !.time_since_last_move = t]
                  /\ UNCHANGED <<game, event, pc>>
    /\ UNCHANGED <<probe, server>>

PacingNext == MobileInput \/ KeyPress \/ Frame \/ Dispatch

PacingSpec == PacingInit /\ [][PacingNext]_vars

----------------------------------------------------------------------------
(* IntervalSpec: the move interval on every score in 0..MaxScore *)

IntervalInit ==
    /\ pacing \in {[IdlePacing EXCEPT !.score = s] : s \in 0..MaxScore}
    /\ game = CHOOSE g \in GameState_new(1) : TRUE
    /\ event = "NoCall"
    /\ pc = "idle"
    /\ probe = IdleProbe
    /\ server = IdleServer

\* lib.rs 207-210 on the score under examination
ComputeInterval ==
    /\ pacing.move_interval = 0
    /\ pacing' = [pacing EXCEPT !.move_interval = move_interval(pacing.score)]
    /\ UNCHANGED <<game, event, pc, probe, server>>

\* game.rs 172 adds 1 or 5 to the score; lib.rs 207-210 in the next frame
ScoreUp ==
    /\ pacing.move_interval # 0
    /\ \E points \in {1, 5} :
         /\ pacing.score + points <= MaxScore
         /\ pacing' = [pacing EXCEPT
                         !.score = @ + points,
                         !.move_interval = move_interval(pacing.score + points)]
    /\ UNCHANGED <<game, event, pc, probe, server>>

IntervalNext == ComputeInterval \/ ScoreUp

IntervalSpec == IntervalInit /\ [][IntervalNext]_vars

----------------------------------------------------------------------------
(* The leaderboard service: src/server/src/main.rs. Handlers run on worker  *)
(* threads side by side; AppState is shared, its scores behind a mutex. A   *)
(* Score's name is the number of the request that posted it, so every       *)
(* posted entry can be told from every other. server.file is what           *)
(* AppState::load would read from the scores file.                          *)

\* main.rs 9-13
Score(name, score) == [name |-> name, score |-> score]

\* main.rs 45: sort_by is stable: an entry goes behind the entries of the
\* sorted prefix whose score is not lower
insert_desc(sorted, e) ==
    LET k == Cardinality({i \in 1..Len(sorted) : sorted[i].score >= e.score})
    IN  SubSeq(sorted, 1, k) \o <<e>> \o SubSeq(sorted, k + 1, Len(sorted))

RECURSIVE sort_desc(_)
\* main.rs 45: scores.sort_by(|a, b| b.score.cmp(&a.score))
sort_desc(list) ==
    IF list = <<>>
    THEN <<>>
    ELSE insert_desc(sort_desc(SubSeq(list, 1, Len(list) - 1)), list[Len(list)])

\* Vec::truncate
truncate(list, len) == SubSeq(list, 1, Min(len, Len(list)))

\* main.rs 47
top_n == 10

get_scores_mut_no_sort(list) == truncate(list, top_n)

\* main.rs 41-49: the body of the response to GET /api/scores, computed on
\* a clone of the stored list
get_scores(list) == truncate(sort_desc(list), top_n)

\* main.rs 36: fs::write creates or truncates the file and writes the
\* contents; its Result is discarded. It succeeds, or fails before touching
\* the file, or fails after truncating it.
fs_write(file, contents) ==
    {[ok |-> TRUE, file |-> contents],
     [ok |-> FALSE, file |-> file],
     [ok |-> FALSE, file |-> <<>>]}

ServerInit ==
    /\ server = IdleServer
    /\ game = CHOOSE g \in GameState_new(1) : TRUE
    /\ event = "NoCall"
    /\ pc = "idle"
    /\ probe = IdleProbe
    /\ pacing = IdlePacing

\* main.rs 51-52: a POST /api/scores request reaches a free worker
Post ==
    /\ server.posted < MaxPosts
    /\ \E h \in Handlers, v \in ScoreValues :
         /\ server.handlers[h].pc = "idle"
         /\ server' = [server EXCEPT
                         !.posted = @ + 1,
                         !.handlers[h] = [pc |-> "lock_push",
                                          score |-> Score(server.posted + 1, v)]]
    /\ UNCHANGED <<game, event, pc, probe, pacing>>

\* main.rs 53: data.scores.lock()
PushLock ==
    /\ \E h \in Handlers :
         /\ server.handlers[h].pc = "lock_push"
         /\ server.lock = "free"
         /\ server' = [server EXCEPT !.lock = h, !.handlers[h].pc = "push"]
    /\ UNCHANGED <<game, event, pc, probe, pacing>>

\* main.rs 54-62: push, then drop the guard
Push ==
    /\ \E h \in Handlers :
         /\ server.handlers[h].pc = "push"
         /\ server' = [server EXCEPT
                         !.scores = Append(@, server.handlers[h].score),
                         !.lock = "free",
                         !.handlers[h].pc = "lock_save"]
    /\ UNCHANGED <<game, event, pc, probe, pacing>>

\* main.rs 64, 34: save() takes the mutex again
SaveLock ==
    /\ \E h \in Handlers :
         /\ server.handlers[h].pc = "lock_save"
         /\ server.lock = "free"
         /\ server' = [server EXCEPT !.lock = h, !.handlers[h].pc = "write"]
    /\ UNCHANGED <<game, event, pc, probe, pacing>>

\* main.rs 35-38: serialise the list and write the file, whatever the
\* outcome of the write; the guard is dropped at the end of save()
Write ==
    /\ \E h \in Handlers :
         /\ server.handlers[h].pc = "write"
         /\ \E written \in fs_write(server.file, server.scores) :
              server' = [server EXCEPT
                           !.file = written.file,
                           !.written = IF written.ok THEN written.file ELSE @,
                           !.lock = "free",
                           !.handlers[h].pc = "respond"]
    /\ UNCHANGED <<game, event, pc, probe, pacing>>

\* main.rs 65: the response "Score saved"
Respond ==
    /\ \E h \in Handlers :
         /\ server.handlers[h].pc = "respond"
         /\ server' = [server EXCEPT !.handlers[h].pc = "idle"]
    /\ UNCHANGED <<game, event, pc, probe, pacing>>

ServerNext == Post \/ PushLock \/ Push \/ SaveLock \/ Write \/ Respond

ServerSpec == ServerInit /\ [][ServerNext]_vars

----------------------------------------------------------------------------
(* ReadSpec: GET /api/scores on every stored list of up to MaxStored entries *)

\* main.rs 21-31: the lists AppState::load can find in the scores file
StoredLists ==
    UNION { { [i \in 1..k |-> Score(i, f[i])] : f \in [1..k -> ScoreValues] } :
              k \in 0..MaxStored }

ReadInit ==
    /\ server \in { [IdleServer EXCEPT !.scores = list, !.file = list,
                                        !.written = list] :
                       list \in StoredLists }
    /\ game = CHOOSE g \in GameState_new(1) : TRUE
    /\ event = "NoCall"
    /\ pc = "idle"
    /\ probe = IdleProbe
    /\ pacing = IdlePacing

\* main.rs 41-49: lock, clone, release; sort and truncate the clone; respond
GetScores ==
    /\ server.lock = "free"
    /\ ~server.read
    /\ server' = [server EXCEPT !.read = TRUE,
                                !.response = get_scores(server.scores)]
    /\ UNCHANGED <<game, event, pc, probe, pacing>>

ReadNext == GetScores

ReadSpec == ReadInit /\ [][ReadNext]_vars

----------------------------------------------------------------------------
(* ResolverSpec: the resolver on every in-range input *)

Calls(n) == [pos : Cells(n), dir : Directions]

ResolverInit ==
    /\ probe \in UNION { { [n |-> n, start |-> c, from |-> c, to |-> c,
                              orig |-> c, steps |-> 0, undone |-> FALSE] :
                               c \in Calls(n) } : n \in 1..MaxGrid }
    /\ game = CHOOSE g \in GameState_new(1) : TRUE
    /\ event = "NoCall"
    /\ pc = "idle"
    /\ pacing = IdlePacing
    /\ server = IdleServer

\* call the resolver on the position and direction it last returned
Resolve ==
    /\ ~probe.undone
    /\ probe.steps < 4 * probe.n
    /\ probe' = [probe EXCEPT
                   !.from = probe.to,
                   !.orig = probe.to,
                   !.to = calculate_next_position(probe.n, probe.to.pos,
                                                  probe.to.dir),
                   !.steps = @ + 1]
    /\ UNCHANGED <<game, event, pc, pacing, server>>

\* turn around: call the resolver on the position it last returned and the
\* reverse of the direction it last returned
ResolveBack ==
    /\ ~probe.undone
    /\ probe.steps >= 1
    /\ probe' = [probe EXCEPT
                   !.from = [pos |-> probe.to.pos, dir |-> reverse(probe.to.dir)],
                   !.to = calculate_next_position(probe.n, probe.to.pos,
                                                  reverse(probe.to.dir)),
                   !.undone = TRUE]
    /\ UNCHANGED <<game, event, pc, pacing, server>>

ResolverNext == Resolve \/ ResolveBack

ResolverSpec == ResolverInit /\ [][ResolverNext]_vars

----------------------------------------------------------------------------
(* Properties of the resolver, checked under ResolverSpec. In a state with *)
(* probe.steps >= 1, probe.to is the resolver's result on probe.from.      *)

Called == probe.steps >= 1

\* the face the call left differs from the face it returned
Crossed(c, r) == c.pos.face # r.pos.face

\* C1: resolver totality: on every grid_size, face, direction and in-range
\* (u, v) the resolver returns a face and a direction and a position whose u
\* and v are both in [0, grid_size).
C1_ResolverTotality ==
    Called =>
        /\ InRange(probe.n, probe.from.pos)
        /\ probe.to.pos.face \in Faces
        /\ probe.to.dir \in Directions
        /\ InRange(probe.n, probe.to.pos)

C1_Witness ==
    /\ probe.steps = 1
    /\ probe.n = 3
    /\ probe.from = [pos |-> Pos("Back", 1, 2), dir |-> "Up"]
    /\ probe.to.pos.face = "Top"

\* C2: resolver reciprocity: when a call (p, D) crosses a face boundary and
\* returns (q, D'), the call (q, reverse(D')) returns the cell p and the
\* direction reverse(D).
C2_ResolverReciprocity ==
    (probe.undone /\ Crossed(probe.orig, probe.from)) =>
        /\ probe.to.pos = probe.orig.pos
        /\ probe.to.dir = reverse(probe.orig.dir)

C2_Witness ==
    /\ probe.undone
    /\ probe.n = 3
    /\ probe.orig = [pos |-> Pos("Top", 2, 1), dir |-> "Right"]
    /\ probe.from = [pos |-> Pos("Right", 1, 2), dir |-> "Up"]
    /\ probe.to = [pos |-> Pos("Top", 2, 1), dir |-> "Left"]

\* moving one cell in dir from pos keeps both coordinates in [0, n)
StaysOnFace(n, pos, dir) ==
    CASE dir = "Up" -> pos.v + 1 < n
      [] dir = "Down" -> pos.v - 1 >= 0
      [] dir = "Left" -> pos.u - 1 >= 0
      [] dir = "Right" -> pos.u + 1 < n

OneCell(pos, dir) ==
    CASE dir = "Up" -> Pos(pos.face, pos.u, pos.v + 1)
      [] dir = "Down" -> Pos(pos.face, pos.u, pos.v - 1)
      [] dir = "Left" -> Pos(pos.face, pos.u - 1, pos.v)
      [] dir = "Right" -> Pos(pos.face, pos.u + 1, pos.v)

\* C3: non-crossing step: when one cell in D stays on the face, the resolver
\* returns the same face, the moved coordinate changed by exactly 1 (Up v+1,
\* Down v-1, Left u-1, Right u+1), the other unchanged, and the direction D.
C3_NonCrossingStep ==
    (Called /\ StaysOnFace(probe.n, probe.from.pos, probe.from.dir)) =>
        /\ probe.to.pos = OneCell(probe.from.pos, probe.from.dir)
        /\ probe.to.dir = probe.from.dir

C3_Witness ==
    /\ probe.steps = 1
    /\ probe.n = 3
    /\ probe.from = [pos |-> Pos("Left", 1, 1), dir |-> "Up"]
    /\ probe.to = [pos |-> Pos("Left", 1, 2), dir |-> "Up"]

\* C4: Front seams keep coordinates and direction: Up from Front(u, N-1)
\* gives Top(u, 0) still heading Up, and Right from Front(N-1, v) gives
\* Right(0, v) still heading Right.
C4_FrontSeams ==
    (Called /\ probe.from.pos.face = "Front") =>
        /\ (probe.from.dir = "Up" /\ probe.from.pos.v = probe.n - 1) =>
              probe.to = Res("Top", probe.from.pos.u, 0, "Up")
        /\ (probe.from.dir = "Right" /\ probe.from.pos.u = probe.n - 1) =>
              probe.to = Res("Right", 0, probe.from.pos.v, "Right")

C4_Witness ==
    /\ probe.steps = 1
    /\ probe.n = 4
    /\ probe.from = [pos |-> Pos("Front", 3, 1), dir |-> "Right"]
    /\ probe.to = Res("Right", 0, 1, "Right")

\* C5: the Top-to-Back seam mirrors and flips: Up from Top(u, N-1) gives
\* Back(N-1-u, N-1) heading Down.
C5_TopToBack ==
    (/\ Called
     /\ probe.from.pos.face = "Top"
     /\ probe.from.dir = "Up"
     /\ probe.from.pos.v = probe.n - 1) =>
        probe.to = Res("Back", probe.n - 1 - probe.from.pos.u, probe.n - 1, "Down")

C5_Witness ==
    /\ probe.steps = 1
    /\ probe.n = 4
    /\ probe.from = [pos |-> Pos("Top", 1, 3), dir |-> "Up"]
    /\ probe.to = Res("Back", 2, 3, "Down")

Abs(x) == IF x < 0 THEN -x ELSE x

\* the distances between two embedded cell centres along x, y and z; one
\* cell is 2 in the units of pos_to_vec3
Delta(n, p, q) ==
    LET a == pos_to_vec3(n, p)
        b == pos_to_vec3(n, q)
    IN  [i \in 1..3 |-> Abs(a[i] - b[i])]

\* p and q are neighbours on the cube's surface: on one face, one cell apart
\* along one axis; on two faces, each half a cell from the edge the faces
\* share and at the same place along that edge
SurfaceNeighbours(n, p, q) ==
    LET d == Delta(n, p, q)
    IN  IF p.face = q.face
        THEN \E i \in 1..3 : d[i] = 2 /\ \A j \in 1..3 \ {i} : d[j] = 0
        ELSE \E i \in 1..3 : d[i] = 0 /\ \A j \in 1..3 \ {i} : d[j] = 1

\* C6: topological continuity: the cell the resolver returns is a surface
\* neighbour of the cell it was called on, under the renderer's embedding.
C6_Continuity3D ==
    Called => SurfaceNeighbours(probe.n, probe.from.pos, probe.to.pos)

C6_Witness ==
    /\ probe.steps = 1
    /\ probe.n = 3
    /\ probe.from = [pos |-> Pos("Bottom", 2, 0), dir |-> "Right"]
    /\ probe.to.pos = Pos("Right", 2, 0)
    /\ Delta(3, probe.from.pos, probe.to.pos) = [i \in 1..3 |-> IF i = 3 THEN 0 ELSE 1]

----------------------------------------------------------------------------
(* Properties of the game, checked under Spec. The step that leaves        *)
(* pc = "idle" is one update() call; in a state with pc = "dispatch" the   *)
(* call has just returned event.                                           *)

UpdateCall == pc = "idle" /\ pc' # "idle"

Returned == pc = "dispatch"

\* C7: terminal stickiness: once game_over is set, every update() call
\* returns None and leaves score, high score, eaten count, snake body, snake
\* direction, food, prize flag and game_over unchanged.
C7_TerminalStickiness ==
    [][(game.game_over /\ UpdateCall) =>
         (Returned' /\ event' = "None" /\ game' = game)]_vars

\* update() has been called on a finished game
C7_Witness == game.game_over /\ Returned /\ event = "None"

\* C8 as claimed: from game over until the reset no field of GameState
\* changes, snake.next_direction included, under ticks and input events.
C8_ReadOnlyAfterGameOver ==
    [][(game.game_over /\ game'.game_over) => game' = game]_vars

\* C8 as amended: from game over until the reset no field of GameState other
\* than snake.next_direction changes under ticks and input events.
C8_ReadOnlyExceptBuffer ==
    [][(game.game_over /\ game'.game_over) =>
         [game' EXCEPT !.snake.next_direction = game.snake.next_direction] = game]_vars

\* the GameOver tick commits next_direction into direction, so they differ
\* on a finished game only after an input was buffered on it
C8_Witness ==
    game.game_over /\ game.snake.next_direction # game.snake.direction

\* C9: length conservation: an update() call whose candidate head is not the
\* food cell (a legal move, a GameOver, or a call on a finished game) leaves
\* the body length as it was.
C9_LengthConservation ==
    [][(UpdateCall /\ (game.game_over \/ ~growing(game))) =>
         Len(game'.snake.body) = Len(game.snake.body)]_vars

\* a snake longer than one cell has made a legal non-growing move
C9_Witness ==
    /\ Returned
    /\ event = "None"
    /\ ~game.game_over
    /\ Len(game.snake.body) >= 2

\* C10: growth: an update() call on a running game whose candidate head is
\* the food cell lengthens the body by exactly 1 and leaves the food on a
\* cell that no segment of the moved snake occupies.
C10_Growth ==
    [][(UpdateCall /\ ~game.game_over /\ growing(game)) =>
         /\ Len(game'.snake.body) = Len(game.snake.body) + 1
         /\ ~Contains(game'.snake.body, game'.food)]_vars

\* C11: tail-chase exception: when the candidate head is the current tail
\* cell and is not the food cell, update() makes a legal move: it returns
\* None, game_over stays false, the candidate becomes the head and the old
\* tail cell leaves the tail end.
C11_TailChase ==
    [][(/\ UpdateCall
        /\ ~game.game_over
        /\ candidate(game).pos = Back(game.snake.body)
        /\ candidate(game).pos # game.food) =>
         /\ Returned'
         /\ event' = "None"
         /\ ~game'.game_over
         /\ game'.snake.body =
              <<Back(game.snake.body)>> \o PopBack(game.snake.body)]_vars

\* on the 6-cell board a snake of 5 leaves one free cell, the food, so the
\* only legal non-growing move is onto its own tail: it has just made one
C11_Witness ==
    /\ Returned
    /\ event = "None"
    /\ ~game.game_over
    /\ game.config.grid_size = 1
    /\ Len(game.snake.body) = 5

\* C12: score per food: the Nth food eaten in a session adds exactly 5 to
\* score and update() returns EatPrize when N is a multiple of 5; otherwise
\* it adds exactly 1 and update() returns Eat.
C12_ScorePerFood ==
    [][(UpdateCall /\ ~game.game_over /\ growing(game)) =>
         IF (game.food_eaten_count + 1) % 5 = 0
         THEN /\ game'.score = game.score + 5
              /\ Returned'
              /\ event' = "EatPrize"
         ELSE /\ game'.score = game.score + 1
              /\ Returned'
              /\ event' = "Eat"]_vars

\* C13: the high score is monotone: no update() call and no restart with
\* the R key lowers high_score.
C13_HighScoreMonotone ==
    [][game'.high_score >= game.high_score]_vars

\* a restarted session that carries the high score of an earlier one
C13_Witness ==
    /\ ~game.game_over
    /\ game.high_score > game.score
    /\ game.food_eaten_count >= 1

\* body[i + 1] has a direction in which the resolver returns body[i]
Adjacent(g, i) ==
    \E D \in Directions :
        calculate_next_position(g.config.grid_size, g.snake.body[i + 1], D).pos
            = g.snake.body[i]

\* C14: snake adjacency: every two consecutive body segments are one
\* resolver step apart (neighbours on one face, or a cross-face pair).
C14_SnakeAdjacency ==
    \A i \in 1..(Len(game.snake.body) - 1) : Adjacent(game, i)

\* a snake of three or more lying over a seam
C14_Witness ==
    /\ Len(game.snake.body) >= 3
    /\ game.config.grid_size = 2
    /\ game.snake.body[1].face # game.snake.body[2].face
    /\ game.snake.body[2].face = game.snake.body[3].face

\* what GameState::new(n) returns, the high score apart
FreshState(g) ==
    LET n == g.config.grid_size
    IN  /\ g.snake.body = <<Pos("Front", n \div 2, n \div 2)>>
        /\ g.snake.direction = "Up"
        /\ g.snake.next_direction = "Up"
        /\ g.score = 0
        /\ g.food_eaten_count = 0
        /\ ~g.game_over
        /\ ~g.is_prize
        /\ g.food.face \in Faces
        /\ InRange(n, g.food)
        /\ g.food # g.snake.body[1]

\* C15: fresh state: GameState::new(N) returns a snake of the one cell
\* Front(N/2, N/2) heading Up with Up buffered, score 0, high_score 0,
\* food_eaten_count 0, game_over and is_prize false, and the food on an
\* in-range cell that is not the snake's. Every initial state is such a
\* value, and so is the value the R key builds before it restores the high
\* score.
C15_FreshState ==
    /\ FreshState(game) /\ game.high_score = 0
    /\ [][(game.game_over /\ ~game'.game_over) =>
            /\ FreshState(game')
            /\ game'.high_score = game.high_score
            /\ game'.config = game.config]_vars

\* a session restarted on the larger board
C15_Witness ==
    /\ FreshState(game)
    /\ game.config.grid_size = 2
    /\ game.high_score > 0

\* C16: food respawn is bounded: every update() call returns, the one that
\* fills the board included.
C16_UpdateReturns == pc # "spawn_food"

\* C17: no reversal reaches the state machine: whenever the loop is about to
\* call update() on a running game, next_direction is not the opposite of
\* the snake's direction of travel, whatever inputs (keys, buttons, swipes)
\* came since the last tick and whatever direction a face crossing left.
C17_NoReversal ==
    (pc = "idle" /\ ~game.game_over) =>
        game.snake.next_direction # reverse(game.snake.direction)

\* the snake crossed from Top onto Right, which turned it from Right to
\* Down, and a sideways input has been buffered since
C17_Witness ==
    /\ pc = "idle"
    /\ ~game.game_over
    /\ Len(game.snake.body) >= 2
    /\ game.snake.body[1].face = "Right"
    /\ game.snake.body[2].face = "Top"
    /\ game.snake.direction = "Down"
    /\ game.snake.next_direction = "Left"

\* C18: latest input wins: an input step overwrites next_direction and
\* nothing else, so only the last value set before a tick is left; update()
\* on a running game resolves the step from the head cell in that value (the
\* head moves there, or on a collision the value is committed as direction).
C18_LatestInputWins ==
    [][/\ (pc = "idle" /\ pc' = "idle" /\ game'.game_over = game.game_over) =>
            [game' EXCEPT !.snake.next_direction = game.snake.next_direction]
                = game
       /\ (UpdateCall /\ ~game.game_over) =>
            IF game'.game_over
            THEN game'.snake.direction = game.snake.next_direction
            ELSE game'.snake.body[1] =
                   calculate_next_position(game.config.grid_size,
                                           game.snake.body[1],
                                           game.snake.next_direction).pos]_vars

\* the snake has turned on a face: its first three cells are on one face and
\* not in line, so a tick stepped in a buffered direction that was not the
\* direction of travel
C18_Witness ==
    /\ Returned
    /\ Len(game.snake.body) >= 3
    /\ game.snake.body[1].face = game.snake.body[2].face
    /\ game.snake.body[2].face = game.snake.body[3].face
    /\ game.snake.body[1].u # game.snake.body[3].u
    /\ game.snake.body[1].v # game.snake.body[3].v

\* C19: coordinates stay in range: every body cell and the food have a face
\* of the cube and u and v in [0, grid_size).
C19_CoordinatesInRange ==
    /\ \A i \in 1..Len(game.snake.body) :
          /\ game.snake.body[i].face \in Faces
          /\ InRange(game.config.grid_size, game.snake.body[i])
    /\ game.food.face \in Faces
    /\ InRange(game.config.grid_size, game.food)

\* a snake of three that has gone over the back of the cube
C19_Witness ==
    /\ game.config.grid_size = 2
    /\ Len(game.snake.body) >= 3
    /\ game.snake.body[1].face = "Back"

\* C20: collision is a state transition: the body is never empty (head() and
\* the tail lookup cannot fail); game_over is set only by an update() call,
\* and an update() call returns GameOver exactly when it is the call that
\* sets game_over, so once per session.
C20_CollisionIsTransition ==
    /\ [](Len(game.snake.body) >= 1)
    /\ [][(~game.game_over /\ game'.game_over) => UpdateCall]_vars
    /\ [][UpdateCall =>
            ((Returned' /\ event' = "GameOver")
                <=> (~game.game_over /\ game'.game_over))]_vars

\* update() has just reported a collision
C20_Witness ==
    /\ Returned
    /\ event = "GameOver"
    /\ game.game_over
    /\ Len(game.snake.body) >= 4

\* what game.rs 145 resolves on a call: one step from the head cell in the
\* buffered direction
Step(g) ==
    calculate_next_position(g.config.grid_size, g.snake.body[1],
                            g.snake.next_direction)

\* the candidate head is on the body, and it is not the case that it is the
\* tail cell and not the food cell
Fatal(g) ==
    /\ Contains(g.snake.body, Step(g).pos)
    /\ ~(Step(g).pos = Back(g.snake.body) /\ Step(g).pos # g.food)

\* C21: self-collision rule: on a running game update() sets game_over and
\* returns GameOver if and only if the candidate head is a body cell and is
\* not (the tail cell and not the food cell); in every other case the move
\* is applied: the candidate becomes the head and the game goes on.
C21_SelfCollisionRule ==
    [][(UpdateCall /\ ~game.game_over) =>
         /\ (game'.game_over /\ Returned' /\ event' = "GameOver")
               <=> Fatal(game)
         /\ ~Fatal(game) =>
               (~game'.game_over /\ game'.snake.body[1] = Step(game).pos)]_vars

\* update() has just refused a step onto a body cell that is not the tail:
\* the committed direction leads from the head onto the body
C21_Witness ==
    /\ Returned
    /\ event = "GameOver"
    /\ game.game_over
    /\ game.snake.direction = game.snake.next_direction
    /\ Fatal(game)
    /\ Step(game).pos # Back(game.snake.body)

\* C22: the GameOver tick mutates nothing else: on the update() call that
\* returns GameOver the body, food, is_prize, score, high_score and
\* food_eaten_count are as before the call; game_over is set and direction
\* is the buffered next_direction.
C22_GameOverFrame ==
    [][(UpdateCall /\ Returned' /\ event' = "GameOver") =>
         game' = [game EXCEPT !.game_over = TRUE,
                              !.snake.direction = game.snake.next_direction]]_vars

\* a collision after three foods, the food still off the snake
C22_Witness ==
    /\ Returned
    /\ event = "GameOver"
    /\ game.food_eaten_count >= 3
    /\ game.score = game.food_eaten_count
    /\ Len(game.snake.body) = game.food_eaten_count + 1
    /\ ~Contains(game.snake.body, game.food)

\* C23: one step per tick: an update() call on a running game that does not
\* end in GameOver leaves as body the candidate cell followed by the old
\* body when the candidate is the food, and followed by the old body without
\* its last cell otherwise; the candidate is the resolver's step from the
\* old head in the committed direction.
C23_OneStepPerTick ==
    [][(UpdateCall /\ ~game.game_over /\ ~(Returned' /\ event' = "GameOver")) =>
         game'.snake.body =
            IF Step(game).pos = game.food
            THEN <<Step(game).pos>> \o game.snake.body
            ELSE <<Step(game).pos>> \o PopBack(game.snake.body)]_vars

\* the snake has just eaten its second or a later food on the larger board
C23_Witness ==
    /\ Returned
    /\ event = "Eat"
    /\ game.config.grid_size = 2
    /\ Len(game.snake.body) >= 3

\* C24: direction follows the resolver: after an update() call that moves
\* the snake, snake.direction and snake.next_direction are the direction the
\* resolver returned for that step.
C24_DirectionFollowsResolver ==
    [][(UpdateCall /\ ~game.game_over /\ ~(Returned' /\ event' = "GameOver")) =>
         /\ game'.snake.direction = Step(game).dir
         /\ game'.snake.next_direction = Step(game).dir]_vars

\* the snake has just crossed from Top onto Right heading Right, which the
\* resolver turns into Down
C24_Witness ==
    /\ Returned
    /\ event = "None"
    /\ ~game.game_over
    /\ Len(game.snake.body) >= 2
    /\ game.snake.body[1].face = "Right"
    /\ game.snake.body[2].face = "Top"
    /\ game.snake.direction = "Down"
    /\ game.snake.next_direction = "Down"

\* C25: the event tag matches the tick: update() returns Eat or EatPrize
\* exactly when the body grew on that call (EatPrize iff the food eaten was
\* a prize), GameOver exactly when the call set game_over, and None in every
\* other case.
C25_EventMatchesTick ==
    [][UpdateCall =>
         LET grew == Len(game'.snake.body) > Len(game.snake.body)
             died == ~game.game_over /\ game'.game_over
         IN  /\ Returned'
             /\ event' = "EatPrize" <=> (grew /\ game.is_prize)
             /\ event' = "Eat" <=> (grew /\ ~game.is_prize)
             /\ event' = "GameOver" <=> died
             /\ event' = "None" <=> (~grew /\ ~died)]_vars

\* C26: the prize cadence follows the eaten count: in every reachable state
\* is_prize is true if and only if food_eaten_count + 1 is a multiple of 5.
C26_PrizeCadence ==
    game.is_prize <=> ((game.food_eaten_count + 1) % 5 = 0)

\* a step that replaces the session: the score or the snake shrinks, or a
\* finished game runs again
Replaced ==
    \/ game'.score < game.score
    \/ game'.food_eaten_count < game.food_eaten_count
    \/ Len(game'.snake.body) < Len(game.snake.body)
    \/ game.game_over /\ ~game'.game_over

\* C28: restart only after game over: the GameState is replaced only by the
\* R key on a finished game, by a fresh GameState::new(grid_size) with the
\* previous high_score; the R key on a running game leaves the GameState
\* unchanged.
C28_RestartOnlyAfterGameOver ==
    /\ [](~game.game_over => key_press(game, "R") = {game})
    /\ [][Replaced =>
            /\ pc = "idle" /\ pc' = "idle"
            /\ game.game_over
            /\ game' \in key_press(game, "R")
            /\ FreshState(game')
            /\ game'.high_score = game.high_score]_vars

\* a session restarted on the 6-cell board after a game of two foods or more
C28_Witness ==
    /\ pc = "idle"
    /\ FreshState(game)
    /\ game.config.grid_size = 1
    /\ game.high_score >= 2

----------------------------------------------------------------------------
(* Properties of GameState under any caller, checked under CoreSpec *)

\* a tick is about to commit the opposite of the direction of travel
Reversal ==
    /\ UpdateCall
    /\ ~game.game_over
    /\ game.snake.next_direction = reverse(game.snake.direction)

\* C27 as claimed: a 180-degree reversal is fatal for every snake length:
\* update() called on a running game with next_direction the opposite of
\* the direction of travel sets game_over and returns GameOver.
C27_ReversalFatal ==
    [][Reversal =>
         (game'.game_over /\ Returned' /\ event' = "GameOver")]_vars

\* C27 as amended: a 180-degree reversal is fatal exactly for a snake of
\* three segments or more: the candidate is then the second body cell. A
\* snake of one segment steps back onto a free cell, and for a snake of two
\* the candidate is the vacating tail, a legal move by the tail exception.
C27_ReversalFatalFromThree ==
    [][Reversal =>
         IF Len(game.snake.body) >= 3
         THEN /\ Step(game).pos = game.snake.body[2]
              /\ game'.game_over /\ Returned' /\ event' = "GameOver"
         ELSE /\ ~game'.game_over
              /\ game'.snake.body[1] = Step(game).pos]_vars

\* a snake of three or more has just died of a reversal: the committed
\* direction leads from the head onto the second cell
C27_Witness ==
    /\ Returned
    /\ event = "GameOver"
    /\ Len(game.snake.body) >= 3
    /\ game.snake.direction = game.snake.next_direction
    /\ Step(game).pos = game.snake.body[2]

----------------------------------------------------------------------------
(* Properties of the tick pacing, checked under PacingSpec and IntervalSpec *)

\* C29: tick pacing keeps leftover time: a frame whose accumulated time has
\* reached the move interval calls update() once and carries the time in
\* excess of the interval into the next accumulation.
C29_LeftoverCarried ==
    [][(pc = "dispatch" /\ pc' = "idle") =>
         pacing'.time_since_last_move =
            pacing.time_since_last_move - pacing.move_interval]_vars

\* the interval of the score under examination has been computed
Computed == pacing.move_interval # 0

\* C30: the tick interval as a function of score, in milliseconds: it is
\* 150 at score 0, never below the floor of 50, at the floor exactly from
\* score 50 onward, and non-increasing in score.
C30_MoveInterval ==
    /\ [](Computed =>
            /\ pacing.score = 0 => pacing.move_interval = 150
            /\ pacing.move_interval >= 50
            /\ pacing.move_interval = 50 <=> pacing.score >= 50)
    /\ [][(Computed /\ Computed' /\ pacing'.score >= pacing.score) =>
            pacing'.move_interval <= pacing.move_interval]_vars

\* the interval has been computed for a score beyond 50, after the score
\* crossed 50
C30_Witness ==
    /\ Computed
    /\ pacing.score > 50
    /\ pacing.move_interval = 50

----------------------------------------------------------------------------
(* Invariants of a session, checked under Spec, and the closure of a       *)
(* straight line, checked under ResolverSpec                                *)

\* C31: no overlapping segments: in every reachable state the cells of the
\* snake body are pairwise distinct.
C31_NoOverlap ==
    \A i, j \in 1..Len(game.snake.body) :
        i # j => game.snake.body[i] # game.snake.body[j]

\* a snake of five on the 6-cell board is about to step onto its own tail
C31_Witness ==
    /\ pc = "idle"
    /\ ~game.game_over
    /\ Len(game.snake.body) = 5
    /\ Step(game).pos = Back(game.snake.body)

C33_GrowingTickEats ==
    [][(UpdateCall /\ ~game.game_over /\ Step(game).pos = game.food) =>
         /\ ~Contains(game.snake.body, Step(game).pos)
         /\ game'.snake.body[1] = Step(game).pos
         /\ Returned'
         /\ event' \in {"Eat", "EatPrize"}]_vars

\* C34: short snakes cannot die: with direction inputs that pass the
\* driver's reversal guard, update() never returns GameOver while the body
\* has 3 or fewer segments.
C34_ShortSnakesSafe ==
    [][(UpdateCall /\ Returned' /\ event' = "GameOver") =>
         Len(game.snake.body) >= 4]_vars

\* a snake of four has died going around a corner of the cube: its first
\* three cells are on three faces and the committed direction leads from
\* the head onto the third
C34_Witness ==
    /\ Returned
    /\ event = "GameOver"
    /\ Len(game.snake.body) = 4
    /\ game.snake.body[1].face # game.snake.body[2].face
    /\ game.snake.body[2].face # game.snake.body[3].face
    /\ game.snake.body[1].face # game.snake.body[3].face
    /\ Step(game).pos = game.snake.body[3]

\* C35: the length tracks the eaten count: in every reachable state the
\* body length is 1 + food_eaten_count.
C35_LengthTracksCount ==
    Len(game.snake.body) = 1 + game.food_eaten_count

\* the second session, three foods in
C35_Witness ==
    /\ game.high_score > game.score
    /\ game.food_eaten_count = 3
    /\ Len(game.snake.body) = 4

\* C36: the high score dominates the score: in every reachable state, over
\* update() calls and resets that carry the high score, high_score >= score.
C36_HighScoreDominates == game.high_score >= game.score

\* a food has just raised the score to the high score in a session that
\* started with a carried high score or with none
C36_Witness ==
    /\ Returned
    /\ event \in {"Eat", "EatPrize"}
    /\ game.score >= 3
    /\ game.high_score = game.score

\* C37: straight-line closure: for every grid_size N, in-range position p and
\* direction D, 4 * N resolver calls in a row, each on the position and
\* direction the last one returned, end on p with direction D.
C37_StraightLineClosure ==
    (~probe.undone /\ probe.steps = 4 * probe.n) => probe.to = probe.start

\* a line that started on Top heading Right (it leaves Top over the rotating
\* seam to Right) has closed after 12 steps on the grid of 3
C37_Witness ==
    /\ ~probe.undone
    /\ probe.n = 3
    /\ probe.steps = 12
    /\ probe.start = [pos |-> Pos("Top", 1, 2), dir |-> "Right"]
    /\ probe.to = probe.start

----------------------------------------------------------------------------
(* Properties of the leaderboard service, checked under ReadSpec and       *)
(* ServerSpec                                                               *)

\* C38: leaderboard read: the response to GET /api/scores has at most 10
\* entries, in descending order of score; they are entries of the stored
\* list, as many as it has up to 10, and no stored entry left out has a
\* strictly higher score than a returned one; the read leaves the stored
\* list as it was.
C38_LeaderboardRead ==
    /\ [](server.read =>
            LET r == server.response
                stored == server.scores
            IN  /\ Len(r) <= 10
                /\ Len(r) = IF Len(stored) <= 10 THEN Len(stored) ELSE 10
                /\ \A i \in 1..(Len(r) - 1) : r[i].score >= r[i + 1].score
                /\ \A i \in 1..Len(r) : Contains(stored, r[i])
                /\ \A i, j \in 1..Len(r) : i # j => r[i] # r[j]
                /\ \A k \in 1..Len(stored) :
                      ~Contains(r, stored[k]) =>
                          \A i \in 1..Len(r) : stored[k].score <= r[i].score)
    /\ [][server'.scores = server.scores /\ server'.file = server.file]_vars

\* a read of eleven stored entries, the lowest score not last: the response
\* has ten and leaves out that one
C38_Witness ==
    /\ server.read
    /\ Len(server.scores) = 11
    /\ server.scores[3].score = 1
    /\ \A k \in 1..11 : k # 3 => server.scores[k].score = 2
    /\ Len(server.response) = 10
    /\ ~Contains(server.response, server.scores[3])

\* C39: no lost score under concurrency: for every interleaving of
\* concurrent POST /api/scores requests, when a request has responded its
\* score is in the in-memory list and in the contents of the last successful
\* write of the file, and when all requests have finished the file holds
\* every posted score.
C39_NoLostScore ==
    /\ [][\A h \in Handlers :
            (server.handlers[h].pc = "respond" /\ server'.handlers[h].pc = "idle") =>
                /\ Contains(server.scores, server.handlers[h].score)
                /\ Contains(server.written, server.handlers[h].score)]_vars
    /\ []((\A h \in Handlers : server.handlers[h].pc = "idle") =>
            /\ Len(server.scores) = server.posted
            /\ \A k \in 1..Len(server.scores) :
                  Contains(server.file, server.scores[k]))

====
